---- MODULE Spec2Model ----
(***************************************************************************)
(* CAPM web application (CAPM_return.py, CAPM_function.py).                *)
(*                                                                         *)
(* The Streamlit script CAPM_return.py is one run of a linear pipeline:    *)
(* select stocks, download the market index and every selected stock,      *)
(* inner-join the tables on Date, compute daily returns, regress every     *)
(* stock on the market (beta, alpha), derive CAPM expected returns and a   *)
(* portfolio summary.  CAPM_function.py holds the numeric helpers.         *)
(*                                                                         *)
(* Numbers.  The program computes in IEEE doubles.  A number is modelled   *)
(* as a record [n, d]: d > 0 is the exact rational n/d in lowest terms,    *)
(* d = 0 is one of the three special doubles: n = 1 is +inf, n = -1 is     *)
(* -inf and n = 0 is NaN.  The arithmetic below follows IEEE for the       *)
(* special values (x/0, inf - inf, NaN propagation, comparisons with NaN   *)
(* false) and is exact on the finite ones; binary rounding error and       *)
(* signed zero are not modelled.                                           *)
(***************************************************************************)
EXTENDS Integers, Sequences, FiniteSets, TLC

(***************************************************************************)
(* Double arithmetic                                                       *)
(***************************************************************************)
Abs(i) == IF i < 0 THEN -i ELSE i

Sign(i) == IF i < 0 THEN -1 ELSE IF i > 0 THEN 1 ELSE 0

RECURSIVE Gcd(_, _)
Gcd(a, b) == IF b = 0 THEN a ELSE Gcd(b, a % b)

\* The double n/d (d may be negative or zero), in canonical form.
Norm(n, d) ==
    IF d = 0 THEN [n |-> Sign(n), d |-> 0]
    ELSE LET g == Gcd(Abs(n), Abs(d))
         IN  [n |-> (Sign(d) * n) \div g, d |-> Abs(d) \div g]

Q(n, d) == Norm(n, d)

Int2Q(i) == [n |-> i, d |-> 1]

NaN == [n |-> 0, d |-> 0]

PosInf == [n |-> 1, d |-> 0]

NegInf == [n |-> -1, d |-> 0]

IsNaN(a) == a.d = 0 /\ a.n = 0

IsInf(a) == a.d = 0 /\ a.n # 0

IsFinite(a) == a.d > 0

\* a + b
FAdd(a, b) ==
    IF IsNaN(a) \/ IsNaN(b) THEN NaN
    ELSE IF IsInf(a) /\ IsInf(b) THEN (IF a.n = b.n THEN a ELSE NaN)
    ELSE IF IsInf(a) THEN a
    ELSE IF IsInf(b) THEN b
    ELSE Norm(a.n * b.d + b.n * a.d, a.d * b.d)

FNeg(a) == [n |-> -a.n, d |-> a.d]

\* a - b
FSub(a, b) == FAdd(a, FNeg(b))

\* a * b  (inf * 0 = NaN)
FMul(a, b) == Norm(a.n * b.n, a.d * b.d)

\* 1 / b  (1/0 = +inf, 1/inf = 0)
FRecip(b) ==
    IF b.d = 0 THEN (IF b.n = 0 THEN NaN ELSE Int2Q(0))
    ELSE IF b.n = 0 THEN PosInf
    ELSE [n |-> Sign(b.n) * b.d, d |-> Abs(b.n)]

\* a / b  (x/0 = +-inf for x # 0, 0/0 = NaN)
FDiv(a, b) == FMul(a, FRecip(b))

\* a < b; every comparison with NaN is false
FLt(a, b) ==
    IF IsNaN(a) \/ IsNaN(b) THEN FALSE
    ELSE IF IsInf(a) THEN a.n = -1 /\ b # NegInf
    ELSE IF IsInf(b) THEN b.n = 1
    ELSE a.n * b.d < b.n * a.d

\* a > b
FGt(a, b) == FLt(b, a)

RECURSIVE FSum(_)
FSum(s) == IF s = << >> THEN Int2Q(0) ELSE FAdd(FSum(SubSeq(s, 1, Len(s) - 1)), s[Len(s)])

\* Python's round(x, ndigits) for ndigits = Digits (10^Digits = scale): the
\* nearest multiple of 1/scale, an exact tie going to the even neighbour;
\* NaN and the infinities are returned as they are.
FRound(a, scale) ==
    IF ~IsFinite(a) THEN a
    ELSE LET num == a.n * scale
             fl  == num \div a.d
             rem == num - fl * a.d
             k   == IF 2 * rem < a.d THEN fl
                    ELSE IF 2 * rem > a.d THEN fl + 1
                    ELSE IF fl % 2 = 0 THEN fl ELSE fl + 1
         IN  Norm(k, scale)

(***************************************************************************)
(* Tables (pandas DataFrames).  A table is a record                        *)
(*   [Date |-> the Date column, names |-> the other column labels in       *)
(*    column order, val |-> label -> column (a sequence of doubles)].      *)
(***************************************************************************)
NRows(df) == Len(df.Date)

ColSet(df) == {df.names[k] : k \in 1..Len(df.names)}

MkTable(dates, names, val) == [Date |-> dates, names |-> names, val |-> val]

SeqToSet(s) == {s[k] : k \in 1..Len(s)}

RECURSIVE SelectSeq2(_, _)
\* [x for x in s if x in keep]
SelectSeq2(s, keep) ==
    IF s = << >> THEN << >>
    ELSE LET rest == SelectSeq2(SubSeq(s, 1, Len(s) - 1), keep)
         IN  IF s[Len(s)] \in keep THEN Append(rest, s[Len(s)]) ELSE rest

\* positions of the rows of df whose Date is in dates, in row order
RowsIn(df, dates) ==
    SelectSeq2([k \in 1..NRows(df) |-> k], {k \in 1..NRows(df) : df.Date[k] \in dates})

\* pd.merge(left, right, on='Date', how='inner'); Date is unique in both
Merge(left, right) ==
    LET lrows == RowsIn(left, SeqToSet(right.Date))
        rpos(dt) == CHOOSE k \in 1..NRows(right) : right.Date[k] = dt
        names == left.names \o right.names
    IN  MkTable([k \in 1..Len(lrows) |-> left.Date[lrows[k]]],
                names,
                [c \in SeqToSet(names) |->
                    IF c \in ColSet(left)
                    THEN [k \in 1..Len(lrows) |-> left.val[c][lrows[k]]]
                    ELSE [k \in 1..Len(lrows) |-> right.val[c][rpos(left.Date[lrows[k]])]]])

(***************************************************************************)
(* CAPM_function.py                                                        *)
(***************************************************************************)
\* df[col] / df[col].iloc[0]
NormalizeCol(col) == [k \in 1..Len(col) |-> FDiv(col[k], col[1])]

\* normalize with df = df_2 instead of df_2.copy(): the caller's table is
\* normalized in place
normalize_inplace(df_2) ==
    IF NRows(df_2) = 0 /\ df_2.names # << >>
    THEN [raised |-> "IndexError", ret |-> df_2, arg |-> df_2]
    ELSE LET out == MkTable(df_2.Date, df_2.names,
                            [c \in ColSet(df_2) |-> NormalizeCol(df_2.val[c])])
         IN  [raised |-> "", ret |-> out, arg |-> out]

\* normalize(df_2): works on a copy; .iloc[0] of an empty column raises
\* IndexError.  The result records the returned table (or the exception)
\* and the caller's table after the call.
normalize(df_2) ==
    IF NRows(df_2) = 0 /\ df_2.names # << >>
    THEN [raised |-> "IndexError", ret |-> df_2, arg |-> df_2]
    ELSE [raised |-> "",
          ret |-> MkTable(df_2.Date, df_2.names,
                          [c \in ColSet(df_2) |-> NormalizeCol(df_2.val[c])]),
          arg |-> df_2]

\* pct_change() * 100 with the fillna(0) left out: row 0 stays NaN
PctChangeColNoFill(col) ==
    [k \in 1..Len(col) |->
        FMul(IF k = 1 THEN NaN ELSE FSub(FDiv(col[k], col[k - 1]), Int2Q(1)), Int2Q(100))]

\* df[col].pct_change().fillna(0) * 100: pct_change is col / col.shift(1) - 1
\* (NaN in row 0), fillna(0) replaces every NaN, also a 0/0 one
PctChangeCol(col) ==
    [k \in 1..Len(col) |->
        LET chg == IF k = 1 THEN NaN ELSE FSub(FDiv(col[k], col[k - 1]), Int2Q(1))
            filled == IF IsNaN(chg) THEN Int2Q(0) ELSE chg
        IN  FMul(filled, Int2Q(100))]

\* daily_return(df): works on a copy
daily_return(df) ==
    [raised |-> "",
     ret |-> MkTable(df.Date, df.names, [c \in ColSet(df) |-> PctChangeCol(df.val[c])]),
     arg |-> df]

AllFinite(col) == \A k \in 1..Len(col) : IsFinite(col[k])

AllEqual(col) == \A k \in 1..Len(col) : col[k] = col[1]

FProd(x, y) == [k \in 1..Len(x) |-> FMul(x[k], y[k])]

\* The values a double can take besides the finite ones.
NonFinite == {NaN, PosInf, NegInf}

\* np.polyfit(x, y, 1) -> (slope, intercept), as the set of outcomes a numpy
\* build can produce.  polyfit solves the Vandermonde system [x 1] by lstsq
\* after dividing each column by its Euclidean norm:
\*  - an empty x raises TypeError;
\*  - a NaN or infinity in x, or an all-zero x (its column is scaled 0/0),
\*    puts NaN in the system: LAPACK's SVD does not converge (LinAlgError)
\*    or the NaN is returned;
\*  - an infinity in y alone reaches the solver's right-hand side only: it
\*    comes out as non-finite coefficients, or as LinAlgError;
\*  - a constant non-zero x is rank deficient (RankWarning): the minimum-norm
\*    solution is slope = mean(y) / (2 c), intercept = mean(y) / 2;
\*  - otherwise the least-squares line in closed form.
polyfit(x, y) ==
    LET n   == Int2Q(Len(x))
        sx  == FSum(x)
        sy  == FSum(y)
        sxy == FSum(FProd(x, y))
        sxx == FSum(FProd(x, x))
        b   == FDiv(FSub(FMul(n, sxy), FMul(sx, sy)), FSub(FMul(n, sxx), FMul(sx, sx)))
        a   == FDiv(FSub(sy, FMul(b, sx)), n)
        my  == FDiv(sy, n)
    IN  IF Len(x) = 0 THEN {[raised |-> "TypeError", b |-> NaN, a |-> NaN]}
        ELSE IF ~AllFinite(x) \/ (AllEqual(x) /\ x[1] = Int2Q(0))
        THEN {[raised |-> "LinAlgError", b |-> NaN, a |-> NaN],
              [raised |-> "", b |-> NaN, a |-> NaN]}
        ELSE IF ~AllFinite(y)
        THEN {[raised |-> "LinAlgError", b |-> NaN, a |-> NaN]}
                \cup {[raised |-> "", b |-> vb, a |-> va] : vb \in NonFinite, va \in NonFinite}
        ELSE IF AllEqual(x)
        THEN {[raised |-> "", b |-> FDiv(my, FMul(Int2Q(2), x[1])),
                              a |-> FDiv(my, Int2Q(2))]}
        ELSE {[raised |-> "", b |-> b, a |-> a]}

\* calculate_beta with the two polyfit arguments exchanged: the market is
\* regressed on the stock
calculate_beta_swapped(stock_daily_return, stock) ==
    IF "sp500" \notin ColSet(stock_daily_return) \/ stock \notin ColSet(stock_daily_return)
    THEN {[raised |-> "KeyError", b |-> NaN, a |-> NaN]}
    ELSE LET x == stock_daily_return.val["sp500"]
             y == stock_daily_return.val[stock]
         IN  {[raised |-> r.raised, b |-> r.b, a |-> r.a] : r \in polyfit(y, x)}

\* calculate_beta(stock_daily_return, stock): x is the 'sp500' column, y the
\* stock's; returns (b, a).  A missing column raises KeyError.
calculate_beta(stock_daily_return, stock) ==
    IF "sp500" \notin ColSet(stock_daily_return) \/ stock \notin ColSet(stock_daily_return)
    THEN {[raised |-> "KeyError", b |-> NaN, a |-> NaN]}
    ELSE LET x == stock_daily_return.val["sp500"]
             y == stock_daily_return.val[stock]
         IN  {[raised |-> r.raised, b |-> r.b, a |-> r.a] : r \in polyfit(x, y)}

(***************************************************************************)
(* CAPM_return.py: functions                                               *)
(***************************************************************************)
\* prepare_yfinance_data(ticker, start, end, rename_to) on the frame that
\* yf.download returned: [dates, close], close = << >> standing for a frame
\* without any Close column.  Raises ValueError on an empty frame, KeyError
\* without a Close column; else the table ['Date', rename_to].
prepare_yfinance_data(raw, rename_to) ==
    IF raw.dates = << >> THEN [raised |-> "ValueError", df |-> MkTable(<< >>, << >>, << >>)]
    ELSE IF Len(raw.close) # Len(raw.dates)
    THEN [raised |-> "KeyError", df |-> MkTable(<< >>, << >>, << >>)]
    ELSE [raised |-> "",
          df |-> MkTable(raw.dates, <<rename_to>>, [c \in {rename_to} |-> raw.close])]

\* a <= b
FLe(a, b) == FLt(a, b) \/ (~IsNaN(a) /\ a = b)

\* get_risk_interpretation with <= in place of <: upper bounds inclusive
get_risk_interpretation_inclusive(beta) ==
    IF FLe(beta, Int2Q(0)) THEN "Negative Beta (Inverse Market Relationship)"
    ELSE IF FLe(beta, Q(8, 10)) THEN "Low Volatility (Defensive)"
    ELSE IF FLe(beta, Q(12, 10)) THEN "Market Average"
    ELSE IF FLe(beta, Q(15, 10)) THEN "High Volatility (Aggressive)"
    ELSE "Very High Volatility (Very Aggressive)"

get_risk_interpretation(beta) ==
    IF FLt(beta, Int2Q(0)) THEN "Negative Beta (Inverse Market Relationship)"
    ELSE IF FLt(beta, Q(8, 10)) THEN "Low Volatility (Defensive)"
    ELSE IF FLt(beta, Q(12, 10)) THEN "Market Average"
    ELSE IF FLt(beta, Q(15, 10)) THEN "High Volatility (Aggressive)"
    ELSE "Very High Volatility (Very Aggressive)"

(***************************************************************************)
(* CAPM_return.py: the expressions of the script                           *)
(***************************************************************************)
RiskFreeRate == 0

TradingDays == 252

\* Series.mean(): NaN entries are skipped
Mean(col) ==
    LET kept == SelectSeq(col, LAMBDA v : ~IsNaN(v))
    IN  FDiv(FSum(kept), Int2Q(Len(kept)))

\* rm scaled by calendar days instead of trading days
AnnualizedMarketReturn365(returns) == FMul(Mean(returns.val["sp500"]), Int2Q(365))

\* rm = stocks_daily_return['sp500'].mean() * 252
AnnualizedMarketReturn(returns) == FMul(Mean(returns.val["sp500"]), Int2Q(TradingDays))

\* rf + value * (rm - rf)
ExpectedReturn(rf, value, rm) == FAdd(rf, FMul(value, FSub(rm, rf)))

\* sum(values) / len(values), both Python built-ins; the caller has checked
\* that values is not empty
PyAverage(values) == FDiv(FSum(values), Int2Q(Len(values)))

\* the portfolio class with symmetric, inclusive bounds
PortfolioClassInclusive(avg) ==
    IF FLe(avg, Int2Q(1)) THEN "Conservative"
    ELSE IF FLe(Q(12, 10), avg) THEN "Aggressive"
    ELSE "Balanced"

\* the if / elif / else on avg_beta
PortfolioClass(avg) ==
    IF FLt(avg, Int2Q(1)) THEN "Conservative"
    ELSE IF FGt(avg, Q(12, 10)) THEN "Aggressive"
    ELSE "Balanced"

(***************************************************************************)
(* The environment: what the user selects and what yf.download returns     *)
(***************************************************************************)
\* The trading days between start and end are numbered 1..MaxDays.
MaxDays == 3

\* The first NumTickers options of the multiselect are modelled.
NumTickers == 2

TickerOptions == <<"AAPL", "MSFT", "GOOGL", "AMZN">>

Tickers == {TickerOptions[k] : k \in 1..NumTickers}

RECURSIVE Orderings(_)
\* the orderings of a set, as sequences
Orderings(S) ==
    IF S = {} THEN {<< >>}
    ELSE UNION {{<<x>> \o p : p \in Orderings(S \ {x})} : x \in S}

\* st.multiselect returns the chosen options in the order they were chosen
Selections == UNION {Orderings(S) : S \in SUBSET Tickers}

\* Close prices day by day.  "asset" and "index" are the spec's end-to-end
\* series (returns 0, 10, -10 and 0, 5, -4); "zero" holds a zero price;
\* "ten" has a mean daily return of 10/252 % over three days and "fifteen"
\* moves 1.5 times as much.
History ==
    [asset   |-> <<Q(100, 1), Q(110, 1), Q(99, 1), Q(99, 1), Q(198, 1)>>,
     index   |-> <<Q(100, 1), Q(105, 1), Q(504, 5), Q(126, 1), Q(126, 1)>>,
     zero    |-> <<Q(50, 1), Q(0, 1), Q(25, 1), Q(25, 1), Q(50, 1)>>,
     ten     |-> <<Q(100, 1), Q(4205, 42), Q(4205, 42), Q(4205, 42), Q(4205, 42)>>,
     fifteen |-> <<Q(100, 1), Q(8415, 84), Q(8415, 84), Q(8415, 84), Q(8415, 84)>>]

\* The days a download covers: all of them, the first only, all but the first.
FullWindow == <<1, MaxDays>>

PartWindows == {<<1, 1>>, <<2, MaxDays>>}

\* The histories that are also downloaded over a part of the period.
PartHistories == {"asset", "index"}

Frame(h, w) ==
    [dates |-> [k \in 1..(w[2] - w[1] + 1) |-> w[1] + k - 1],
     close |-> [k \in 1..(w[2] - w[1] + 1) |-> History[h][w[1] + k - 1]]]

\* What yf.download can return: no rows, rows without a Close column, or
\* the Close prices of one history over one window.
RawFrames ==
    {[dates |-> << >>, close |-> << >>], [dates |-> <<1>>, close |-> << >>]}
        \cup {Frame(h, FullWindow) : h \in DOMAIN History}
        \cup {Frame(h, w) : h \in PartHistories, w \in PartWindows}

EmptyTable == MkTable(<< >>, << >>, << >>)

EmptyMap == << >>

\* datetime.date values: [year, month, day]
MkDate(y, m, d) == [year |-> y, month |-> m, day |-> d]

NoDate == MkDate(0, 0, 0)

IsLeap(y) == y % 4 = 0 /\ (y % 100 # 0 \/ y % 400 = 0)

DaysInMonth(y, m) ==
    IF m = 2 THEN (IF IsLeap(y) THEN 29 ELSE 28)
    ELSE IF m \in {4, 6, 9, 11} THEN 30 ELSE 31

\* datetime.date(y, m, d): ValueError unless the day exists
PyDate(y, m, d) ==
    IF y \in 1..9999 /\ m \in 1..12 /\ d \in 1..DaysInMonth(y, m)
    THEN [raised |-> "", date |-> MkDate(y, m, d)]
    ELSE [raised |-> "ValueError", date |-> NoDate]

\* datetime.date.today(): a 29 February and the day after it
Todays == {MkDate(2024, 2, 29), MkDate(2024, 3, 1)}

\* st.number_input(min_value=1, max_value=10, value=1): the default and four
\* years
YearInputs == {1, 4}

\* (today, year) of a run: the default of one year on either day, and four
\* years back from the 29 February
PeriodInputs == {p \in Todays \X YearInputs : p[1].day = 29 \/ p[2] = 1}

(***************************************************************************)
(* State of one run of the script                                          *)
(***************************************************************************)
VARIABLES
    pc,                  \* position of the script
    selected,            \* what st.multiselect returned
    year,                \* what st.number_input returned
    start,               \* first day of the analysis period
    end,                 \* datetime.date.today()
    stocks_list,         \* selected, later without the failed downloads
    sp500_data,
    stock_dfs,
    failed_stocks,
    i,                   \* index of the running for loop
    merged_df,
    valid_stocks,
    stocks_daily_return,
    beta,
    alpha,
    rm,
    expected_return,     \* stock -> the loop's expected_return, before round
    return_value,
    stock_metrics,       \* stock -> what its expander shows
    summary,             \* avg_beta, avg_return, count, class
    warned,              \* stocks an st.warning was shown for
    shown,               \* the st.info / st.error that ended the run
    raised_at,           \* the stock whose calculate_beta raised
    uin,                 \* a direct call of a function: its arguments
    uout                 \* and its result

pipeline == <<pc, selected, year, start, end, stocks_list, sp500_data, stock_dfs, failed_stocks, i,
              merged_df, valid_stocks, stocks_daily_return, beta, alpha, rm,
              expected_return, return_value, stock_metrics, summary, warned,
              shown, raised_at>>

vars == <<pipeline, uin, uout>>

\* A direct call: the function, the caller's table as passed and as it is
\* now, and the numeric arguments.
Call(fn, df, num, nums) == [fn |-> fn, orig |-> df, df |-> df, num |-> num, nums |-> nums]

\* Its outcome: pending, or returned with the exception raised (if any), the
\* table, the (b, a) pair, the text or the number it returned.
Result(st, raised, ret, b, a, text, num) ==
    [st |-> st, raised |-> raised, ret |-> ret, b |-> b, a |-> a, text |-> text, num |-> num]

NoCall == Call("none", MkTable(<< >>, << >>, << >>), NaN, << >>)

Pending == Result("pending", "", MkTable(<< >>, << >>, << >>), NaN, NaN, "", NaN)

NoSummary == [avg_beta |-> NaN, avg_return |-> NaN, count |-> 0, class |-> ""]

InitPipeline ==
    /\ pc = "input"
    /\ selected = << >>
    /\ year = 0
    /\ start = NoDate
    /\ end = NoDate
    /\ stocks_list = << >>
    /\ sp500_data = EmptyTable
    /\ stock_dfs = << >>
    /\ failed_stocks = << >>
    /\ i = 1
    /\ merged_df = EmptyTable
    /\ valid_stocks = << >>
    /\ stocks_daily_return = EmptyTable
    /\ beta = EmptyMap
    /\ alpha = EmptyMap
    /\ rm = NaN
    /\ expected_return = EmptyMap
    /\ return_value = << >>
    /\ stock_metrics = EmptyMap
    /\ summary = NoSummary
    /\ warned = << >>
    /\ shown = ""
    /\ raised_at = ""

Init ==
    /\ InitPipeline
    /\ uin = NoCall
    /\ uout = Pending

(***************************************************************************)
(* The script, top to bottom.  st.stop() ends the run ("stopped"); an      *)
(* exception inside the try block is caught by the outer except, which     *)
(* shows it and ends the run ("error"); an exception outside the try       *)
(* block ends the run uncaught ("uncaught").                               *)
(***************************************************************************)
Stop(msg) == pc' = "stopped" /\ shown' = msg

Fail(exc) == pc' = "error" /\ shown' = exc

\* no st.info / st.error of the script is shown
Uncaught(exc) == pc' = "uncaught" /\ shown' = shown

\* lines 129-143: the multiselect, the number of years, the analysis period
\* and the empty-selection guard.  Line 139 is outside the try block: when
\* today is a 29 February and end.year - year is not a leap year,
\* datetime.date raises ValueError and the run ends there.
SelectStocks ==
    /\ pc = "input"
    /\ \E sel \in Selections : \E p \in PeriodInputs :
        LET today == p[1]
            yr == p[2]
            d == PyDate(today.year - yr, today.month, today.day)
        IN  /\ selected' = sel
            /\ stocks_list' = sel
            /\ year' = yr
            /\ end' = today
            /\ start' = d.date
            /\ IF d.raised # "" THEN Uncaught(d.raised)
               ELSE IF sel = << >> THEN Stop("select_stock")
               ELSE pc' = "download_market" /\ shown' = shown
    /\ UNCHANGED <<sp500_data, stock_dfs, failed_stocks, i, merged_df, valid_stocks,
                   stocks_daily_return, beta, alpha, rm, expected_return, return_value,
                   stock_metrics, summary, warned, raised_at, uin, uout>>

\* line 147: the market index; its exception reaches the outer except
DownloadMarket ==
    /\ pc = "download_market"
    /\ \E raw \in RawFrames :
        LET r == prepare_yfinance_data(raw, "sp500")
        IN  IF r.raised # ""
            THEN Fail(r.raised) /\ UNCHANGED <<sp500_data, i>>
            ELSE /\ sp500_data' = r.df
                 /\ pc' = "download_stocks"
                 /\ i' = 1
                 /\ shown' = shown
    /\ UNCHANGED <<selected, stocks_list, stock_dfs, failed_stocks, merged_df,
                   valid_stocks, stocks_daily_return, beta, alpha, rm, expected_return,
                   return_value, stock_metrics, summary, warned, raised_at, year,
                   start, end, uin, uout>>

\* lines 151-157: one iteration of the download loop
DownloadStock ==
    /\ pc = "download_stocks"
    /\ i <= Len(stocks_list)
    /\ \E raw \in RawFrames :
        LET stock == stocks_list[i]
            r == prepare_yfinance_data(raw, stock)
        IN  IF r.raised # ""
            THEN /\ failed_stocks' = Append(failed_stocks, stock)
                 /\ warned' = Append(warned, stock)
                 /\ UNCHANGED stock_dfs
            ELSE /\ stock_dfs' = Append(stock_dfs, r.df)
                 /\ UNCHANGED <<failed_stocks, warned>>
    /\ i' = i + 1
    /\ UNCHANGED <<pc, selected, stocks_list, sp500_data, merged_df, valid_stocks,
                   stocks_daily_return, beta, alpha, rm, expected_return, return_value,
                   stock_metrics, summary, shown, raised_at, year,
                   start, end, uin, uout>>

RECURSIVE MergeAll(_, _)
\* lines 166-168: merged_stocks after merging dfs[1..k]
MergeAll(dfs, k) == IF k = 1 THEN dfs[1] ELSE Merge(MergeAll(dfs, k - 1), dfs[k])

\* line 172: merged_df.empty
IsEmpty(df) == NRows(df) = 0

\* df[['Date'] + cols]
Project(df, cols) == MkTable(df.Date, cols, [c \in SeqToSet(cols) |-> df.val[c]])

\* lines 159-176: the failed stocks leave stocks_list, the tables are
\* inner-joined on Date, and the two no-data guards stop the run
MergeData ==
    /\ pc = "download_stocks"
    /\ i > Len(stocks_list)
    /\ stocks_list' = IF failed_stocks # << >>
                      THEN SelectSeq2(stocks_list, SeqToSet(stocks_list) \ SeqToSet(failed_stocks))
                      ELSE stocks_list
    /\ IF stock_dfs = << >>
       THEN Stop("no_valid_data") /\ UNCHANGED merged_df
       ELSE LET m == Merge(MergeAll(stock_dfs, Len(stock_dfs)), sp500_data)
            IN  /\ merged_df' = m
                /\ IF IsEmpty(m) THEN Stop("no_overlap")
                   ELSE pc' = "returns" /\ shown' = shown
    /\ UNCHANGED <<selected, sp500_data, stock_dfs, failed_stocks, i, valid_stocks,
                   stocks_daily_return, beta, alpha, rm, expected_return, return_value,
                   stock_metrics, summary, warned, raised_at, year,
                   start, end, uin, uout>>

\* lines 189-210: valid_stocks, the two price charts (normalize is called on
\* a copy of the stock columns and only drawn) and the return table
ComputeReturns ==
    /\ pc = "returns"
    /\ valid_stocks' = SelectSeq2(merged_df.names, ColSet(merged_df) \ {"Date", "sp500"})
    /\ LET n == normalize(Project(merged_df, valid_stocks'))
           d == daily_return(merged_df)
       IN  IF n.raised # "" THEN Fail(n.raised) /\ UNCHANGED <<stocks_daily_return, i>>
           ELSE /\ stocks_daily_return' = d.ret
                /\ pc' = "beta"
                /\ i' = 1
                /\ shown' = shown
    /\ UNCHANGED <<selected, stocks_list, sp500_data, stock_dfs, failed_stocks, merged_df,
                   beta, alpha, rm, expected_return, return_value, stock_metrics,
                   summary, warned, raised_at, year,
                   start, end, uin, uout>>

\* lines 230-234: one iteration of the regression loop
CalculateBeta ==
    /\ pc = "beta"
    /\ i <= Len(valid_stocks)
    /\ LET stock == valid_stocks[i]
       IN  IF stock \in ColSet(stocks_daily_return)
           THEN \E r \in calculate_beta(stocks_daily_return, stock) :
                    IF r.raised # ""
                    THEN /\ Fail(r.raised)
                         /\ raised_at' = stock
                         /\ UNCHANGED <<beta, alpha, i>>
                    ELSE /\ beta' = beta @@ (stock :> r.b)
                         /\ alpha' = alpha @@ (stock :> r.a)
                         /\ i' = i + 1
                         /\ UNCHANGED <<pc, shown, raised_at>>
           ELSE i' = i + 1 /\ UNCHANGED <<beta, alpha, pc, shown, raised_at>>
    /\ UNCHANGED <<selected, stocks_list, sp500_data, stock_dfs, failed_stocks, merged_df,
                   valid_stocks, stocks_daily_return, rm, expected_return, return_value,
                   stock_metrics, summary, warned, year,
                   start, end, uin, uout>>

\* the keys of the beta dict in insertion order
BetaKeys == SelectSeq2(valid_stocks, DOMAIN beta)

\* lines 252-259: rm and the expected-return loop over beta.items()
ExpectedReturns ==
    /\ pc = "beta"
    /\ i > Len(valid_stocks)
    /\ LET m == AnnualizedMarketReturn(stocks_daily_return)
           e == [s \in DOMAIN beta |-> ExpectedReturn(Int2Q(RiskFreeRate), beta[s], m)]
       IN  /\ rm' = m
           /\ expected_return' = e
           /\ return_value' = [k \in 1..Len(BetaKeys) |-> FRound(e[BetaKeys[k]], 100)]
    /\ pc' = "individual"
    /\ UNCHANGED <<selected, stocks_list, sp500_data, stock_dfs, failed_stocks, i,
                   merged_df, valid_stocks, stocks_daily_return, beta, alpha,
                   stock_metrics, summary, warned, shown, raised_at, year,
                   start, end, uin, uout>>

\* lines 329-343: the expander of every stock of stocks_list that has a beta
IndividualAnalysis ==
    /\ pc = "individual"
    /\ stock_metrics' =
          [s \in SeqToSet(stocks_list) \cap DOMAIN beta |->
              [stock_beta |-> beta[s],
               stock_return |-> ExpectedReturn(Int2Q(RiskFreeRate), beta[s], rm),
               risk_cat |-> get_risk_interpretation(beta[s]),
               alpha |-> alpha[s]]]
    /\ pc' = "summary"
    /\ UNCHANGED <<selected, stocks_list, sp500_data, stock_dfs, failed_stocks, i,
                   merged_df, valid_stocks, stocks_daily_return, beta, alpha, rm,
                   expected_return, return_value, summary, warned, shown, raised_at,
                   year, start, end, uin, uout>>

\* list(beta.values())
BetaValues == [k \in 1..Len(BetaKeys) |-> beta[BetaKeys[k]]]

\* lines 386-415: the averages (a division by len of an empty dict raises
\* ZeroDivisionError), the stock count and the portfolio class
PortfolioSummary ==
    /\ pc = "summary"
    /\ IF Len(BetaValues) = 0 \/ Len(return_value) = 0
       THEN Fail("ZeroDivisionError") /\ UNCHANGED summary
       ELSE /\ summary' = [avg_beta |-> PyAverage(BetaValues),
                           avg_return |-> PyAverage(return_value),
                           count |-> Len(stocks_list),
                           class |-> PortfolioClass(PyAverage(BetaValues))]
            /\ pc' = "done"
            /\ shown' = shown
    /\ UNCHANGED <<selected, stocks_list, sp500_data, stock_dfs, failed_stocks, i,
                   merged_df, valid_stocks, stocks_daily_return, beta, alpha, rm,
                   expected_return, return_value, stock_metrics, warned, raised_at,
                   year, start, end, uin, uout>>

Next ==
    \/ SelectStocks
    \/ DownloadMarket
    \/ DownloadStock
    \/ MergeData
    \/ ComputeReturns
    \/ CalculateBeta
    \/ ExpectedReturns
    \/ IndividualAnalysis
    \/ PortfolioSummary

Spec == Init /\ [][Next]_vars

(***************************************************************************)
(* Direct calls of the functions on tables and numbers drawn from small    *)
(* sets: one call per behaviour, chosen by the initial state.              *)
(***************************************************************************)
\* Tables of up to MaxRows rows.
MaxRows == 3

\* Portfolios of up to MaxAssets betas.
MaxAssets == 3

\* Betas GridNeg/100 below zero up to GridPos/100 above, in steps of 0.01.
GridNeg == 20

GridPos == 170

StockPrices == {Q(0, 1), Q(99, 1), Q(100, 1), Q(110, 1)}

MarketPrices == {Q(100, 1), Q(105, 1), Q(504, 5)}

TwoColumns(n, a, m) ==
    MkTable([k \in 1..n |-> k], <<"AAPL", "sp500">>,
            [c \in {"AAPL", "sp500"} |-> IF c = "AAPL" THEN a ELSE m])

MarketReturns == {Q(0, 1), Q(1, 1), Q(2, 1)}

StockReturns == {Q(0, 1), Q(3, 1), Q(5, 1), Q(7, 1), PosInf}

BetaGrid == {Q(k, 100) : k \in (-GridNeg)..GridPos}

BetaSamples == {Q(-1, 2), Q(4, 5), Q(1, 1), Q(6, 5), Q(7, 5), Q(3, 2)}

BetaLists ==
    {<<v>> : v \in BetaGrid \cup NonFinite}
        \cup UNION {[1..n -> BetaSamples] : n \in 2..MaxAssets}

\* The call a behaviour makes: normalize or daily_return on a price table,
\* calculate_beta on a return table (any two columns of doubles),
\* get_risk_interpretation on a double, or the portfolio summary on a
\* non-empty list of betas.
InitUnit ==
    /\ InitPipeline
    /\ uout = Pending
    /\ \/ \E n \in 0..MaxRows : \E a \in [1..n -> StockPrices] : \E m \in [1..n -> MarketPrices] :
             \E fn \in {"normalize", "daily_return"} :
                 uin = Call(fn, TwoColumns(n, a, m), NaN, << >>)
       \/ \E n \in 0..MaxRows : \E a \in [1..n -> StockReturns] : \E m \in [1..n -> MarketReturns] :
             uin = Call("calculate_beta", TwoColumns(n, a, m), NaN, << >>)
       \/ \E v \in BetaGrid \cup NonFinite :
             uin = Call("get_risk_interpretation", EmptyTable, v, << >>)
       \/ \E vs \in BetaLists : uin = Call("portfolio", EmptyTable, NaN, vs)

\* CAPM_function.normalize(df)
CallNormalize ==
    /\ uin.fn = "normalize" /\ uout.st = "pending"
    /\ LET r == normalize(uin.df)
       IN  /\ uout' = Result("returned", r.raised, r.ret, NaN, NaN, "", NaN)
           /\ uin' = [uin EXCEPT !.df = r.arg]
    /\ UNCHANGED pipeline

\* CAPM_function.daily_return(df)
CallDailyReturn ==
    /\ uin.fn = "daily_return" /\ uout.st = "pending"
    /\ LET r == daily_return(uin.df)
       IN  /\ uout' = Result("returned", r.raised, r.ret, NaN, NaN, "", NaN)
           /\ uin' = [uin EXCEPT !.df = r.arg]
    /\ UNCHANGED pipeline

\* CAPM_function.calculate_beta(df, 'AAPL')
CallCalculateBeta ==
    /\ uin.fn = "calculate_beta" /\ uout.st = "pending"
    /\ \E r \in calculate_beta(uin.df, "AAPL") :
          uout' = Result("returned", r.raised, EmptyTable, r.b, r.a, "", NaN)
    /\ UNCHANGED <<pipeline, uin>>

\* get_risk_interpretation(beta)[0]
CallRiskInterpretation ==
    /\ uin.fn = "get_risk_interpretation" /\ uout.st = "pending"
    /\ uout' = Result("returned", "", EmptyTable, NaN, NaN,
                      get_risk_interpretation(uin.num), NaN)
    /\ UNCHANGED <<pipeline, uin>>

\* lines 386 and 401-415 on a non-empty list of betas: avg_beta and the class
CallPortfolio ==
    /\ uin.fn = "portfolio" /\ uout.st = "pending"
    /\ uout' = Result("returned", "", EmptyTable, NaN, NaN,
                      PortfolioClass(PyAverage(uin.nums)), PyAverage(uin.nums))
    /\ UNCHANGED <<pipeline, uin>>

NextUnit ==
    \/ CallNormalize
    \/ CallDailyReturn
    \/ CallCalculateBeta
    \/ CallRiskInterpretation
    \/ CallPortfolio

SpecUnit == InitUnit /\ [][NextUnit]_vars

(***************************************************************************)
(* Properties of the directly called functions (SpecUnit)                  *)
(***************************************************************************)
Returned(fn) == uin.fn = fn /\ uout.st = "returned"

\* The risk category the threshold table gives a beta that is not NaN,
\* by integer comparison of n/d with 0, 8/10, 12/10 and 15/10.
TableCategory(v) ==
    IF v = NegInf \/ (IsFinite(v) /\ v.n < 0)
        THEN "Negative Beta (Inverse Market Relationship)"
    ELSE IF IsFinite(v) /\ 10 * v.n < 8 * v.d THEN "Low Volatility (Defensive)"
    ELSE IF IsFinite(v) /\ 10 * v.n < 12 * v.d THEN "Market Average"
    ELSE IF IsFinite(v) /\ 10 * v.n < 15 * v.d THEN "High Volatility (Aggressive)"
    ELSE "Very High Volatility (Very Aggressive)"

\* C1: for every beta (every double but NaN, which lies in no range of the
\* table) get_risk_interpretation returns the category of the table, lower
\* bounds inclusive and upper bounds exclusive; 0.79 is Low Volatility and
\* 0.80 is Market Average.
C1_RiskThresholds ==
    (Returned("get_risk_interpretation") /\ ~IsNaN(uin.num)) =>
        /\ uout.text = TableCategory(uin.num)
        /\ (uin.num = Q(79, 100) => uout.text = "Low Volatility (Defensive)")
        /\ (uin.num = Q(80, 100) => uout.text = "Market Average")

C1_Witness ==
    /\ Returned("get_risk_interpretation")
    /\ uin.num = Q(80, 100)
    /\ uout.text = "Market Average"

\* The portfolio class the claim gives an average beta that is not NaN.
TableClass(v) ==
    IF v = NegInf \/ (IsFinite(v) /\ v.n < v.d) THEN "Conservative"
    ELSE IF v = PosInf \/ (IsFinite(v) /\ 10 * v.n > 12 * v.d) THEN "Aggressive"
    ELSE "Balanced"

\* C7: for every average beta (but NaN) the portfolio is Conservative below
\* 1, Aggressive above 1.2 and Balanced from 1 to 1.2, both included; the
\* betas 0.8, 1.0, 1.4 average to 16/15 and are Balanced.
C7_PortfolioClass ==
    (Returned("portfolio") /\ ~IsNaN(uout.num)) =>
        /\ uout.text = TableClass(uout.num)
        /\ uout.text \in {"Conservative", "Aggressive", "Balanced"}
        /\ (uin.nums = <<Q(4, 5), Q(1, 1), Q(7, 5)>> =>
                uout.num = Q(16, 15) /\ uout.text = "Balanced")

C7_Witness ==
    /\ Returned("portfolio")
    /\ uin.nums = <<Q(4, 5), Q(1, 1), Q(7, 5)>>
    /\ uout.num = Q(16, 15)
    /\ uout.text = "Balanced"

Positive(v) == IsFinite(v) /\ v.n > 0

AllPositive(df) == \A c \in ColSet(df) : \A k \in 1..NRows(df) : Positive(df.val[c][k])

SameShape(a, b) ==
    /\ a.Date = b.Date
    /\ a.names = b.names
    /\ \A c \in ColSet(b) : Len(a.val[c]) = Len(b.val[c])

\* the spec's end-to-end price table
ExamplePrices ==
    TwoColumns(3, <<Q(100, 1), Q(110, 1), Q(99, 1)>>, <<Q(100, 1), Q(105, 1), Q(504, 5)>>)

\* C2: on a table of positive prices daily_return returns a table of the same
\* shape whose row 0 is 0 in every column and whose row t is
\* 100 * (price[t] - price[t-1]) / price[t-1]; the example table gives
\* 0, 10, -10 and 0, 5, -4.
C2_DailyReturn ==
    (Returned("daily_return") /\ AllPositive(uin.orig)) =>
        /\ uout.raised = ""
        /\ SameShape(uout.ret, uin.orig)
        /\ \A c \in ColSet(uin.orig) : \A k \in 1..NRows(uin.orig) :
              LET p == uin.orig.val[c]
              IN  uout.ret.val[c][k] =
                      IF k = 1 THEN Int2Q(0)
                      ELSE FDiv(FMul(Int2Q(100), FSub(p[k], p[k - 1])), p[k - 1])
        /\ (uin.orig = ExamplePrices =>
                /\ uout.ret.val["AAPL"] = <<Q(0, 1), Q(10, 1), Q(-10, 1)>>
                /\ uout.ret.val["sp500"] = <<Q(0, 1), Q(5, 1), Q(-4, 1)>>)

C2_Witness ==
    /\ Returned("daily_return")
    /\ uin.orig = ExamplePrices
    /\ uout.ret.val["AAPL"] = <<Q(0, 1), Q(10, 1), Q(-10, 1)>>

FirstRowNonZero(df) ==
    /\ NRows(df) > 0
    /\ \A c \in ColSet(df) : IsFinite(df.val[c][1]) /\ df.val[c][1].n # 0

\* C3: on a table whose first-row prices are not zero normalize returns a
\* new table of the same shape in which every column is the input column
\* divided by its first value (so its first row is 1), with the Date column
\* as it was, and the caller's table is left as it was passed.
C3_Normalize ==
    (Returned("normalize") /\ FirstRowNonZero(uin.orig)) =>
        /\ uout.raised = ""
        /\ SameShape(uout.ret, uin.orig)
        /\ \A c \in ColSet(uin.orig) :
              /\ uout.ret.val[c][1] = Int2Q(1)
              /\ \A k \in 1..NRows(uin.orig) :
                    /\ IsFinite(uout.ret.val[c][k])
                    /\ FMul(uout.ret.val[c][k], uin.orig.val[c][1]) = uin.orig.val[c][k]
        /\ uin.df = uin.orig

C3_Witness ==
    /\ Returned("normalize")
    /\ uin.orig = ExamplePrices
    /\ uout.ret.val["AAPL"] = <<Q(1, 1), Q(11, 10), Q(99, 100)>>
    /\ uin.df = ExamplePrices

\* sum over the rows of y - (a + b x), and of x (y - (a + b x))
Residuals(x, y, b, a) == [k \in 1..Len(x) |-> FSub(y[k], FAdd(a, FMul(b, x[k])))]

\* C5: calculate_beta returns (beta, alpha), in that order, the slope and the
\* intercept of the least-squares line of the stock column on the 'sp500'
\* column over all rows: on finite columns with a market column that is not
\* constant the residuals y - (alpha + beta x) sum to zero and are orthogonal
\* to x (the normal equations, which have one solution); y = 2x + 3 gives
\* beta = 2 and alpha = 3.
C5_CalculateBeta ==
    LET x == uin.df.val["sp500"]
        y == uin.df.val["AAPL"]
    IN  (Returned("calculate_beta") /\ NRows(uin.df) > 0
            /\ AllFinite(x) /\ AllFinite(y) /\ ~AllEqual(x)) =>
            /\ uout.raised = ""
            /\ IsFinite(uout.b) /\ IsFinite(uout.a)
            /\ FSum(Residuals(x, y, uout.b, uout.a)) = Int2Q(0)
            /\ FSum(FProd(x, Residuals(x, y, uout.b, uout.a))) = Int2Q(0)
            /\ ((x = <<Q(0, 1), Q(1, 1), Q(2, 1)>> /\ y = <<Q(3, 1), Q(5, 1), Q(7, 1)>>) =>
                    uout.b = Q(2, 1) /\ uout.a = Q(3, 1))

C5_Witness ==
    /\ Returned("calculate_beta")
    /\ uin.df.val["sp500"] = <<Q(0, 1), Q(1, 1), Q(2, 1)>>
    /\ uin.df.val["AAPL"] = <<Q(3, 1), Q(5, 1), Q(7, 1)>>
    /\ uout.b = Q(2, 1)
    /\ uout.a = Q(3, 1)

TableFinite(df) == \A c \in ColSet(df) : AllFinite(df.val[c])

\* C9: a core function either raises or returns finite numbers only; stated
\* for normalize and daily_return, whose result on a zero price is the same
\* on every numpy build.
C9_ErrorOrFinite ==
    (uout.st = "returned" /\ uin.fn \in {"normalize", "daily_return"}) =>
        (uout.raised # "" \/ TableFinite(uout.ret))

(***************************************************************************)
(* Properties of a run of the script (Spec)                                *)
(***************************************************************************)
Ended == pc \in {"stopped", "error", "uncaught", "done"}

AfterDownloads == pc \notin {"input", "uncaught", "download_market", "download_stocks"}

rf == Int2Q(RiskFreeRate)

\* C4: the expected annual return of every asset with a beta, as the loop
\* computes it (before it is rounded into the table) and as the asset's
\* expander shows it, is rf + beta * (rm - rf), where rm is 252 times the
\* mean of the 'sp500' return column over all rows; rm = 10 and beta = 1.5
\* give 15.
C4_ExpectedReturn ==
    LET col == stocks_daily_return.val["sp500"]
        capm(s) == FAdd(rf, FMul(beta[s], FSub(rm, rf)))
    IN  (pc \in {"individual", "summary", "done"}) =>
            /\ rm = FMul(Int2Q(252), FDiv(FSum(col), Int2Q(NRows(stocks_daily_return))))
            /\ DOMAIN expected_return = DOMAIN beta
            /\ \A s \in DOMAIN beta :
                  /\ expected_return[s] = capm(s)
                  /\ (rm = Q(10, 1) /\ beta[s] = Q(3, 2)) => expected_return[s] = Q(15, 1)
                  /\ (pc \in {"summary", "done"} /\ s \in SeqToSet(stocks_list)) =>
                        stock_metrics[s].stock_return = capm(s)

C4_Witness ==
    /\ pc = "done"
    /\ rm = Q(10, 1)
    /\ \E s \in DOMAIN stock_metrics :
          /\ beta[s] = Q(3, 2)
          /\ expected_return[s] = Q(15, 1)
          /\ stock_metrics[s].stock_return = Q(15, 1)

\* the values of a stock -> number map in the order of keys
ValuesOf(map, keys) == [k \in 1..Len(keys) |-> map[keys[k]]]

\* C6: the portfolio summary shows the arithmetic mean of the betas, the
\* arithmetic mean of the assets' CAPM expected returns and the number of
\* assets averaged.
C6_PortfolioAverages ==
    (pc = "done") =>
        /\ summary.avg_beta = FDiv(FSum(ValuesOf(beta, BetaKeys)), Int2Q(Len(BetaKeys)))
        /\ summary.avg_return =
              FDiv(FSum(ValuesOf(expected_return, BetaKeys)), Int2Q(Len(BetaKeys)))
        /\ summary.count = Len(BetaKeys)

\* C8: the averages are never computed over zero assets: a run with nothing
\* selected, with every stock download failed, or with no date common to
\* all tables is stopped with its message before the averaging step, which
\* is only reached with at least one beta and one expected return.
C8_NeverAveragesNothing ==
    /\ (pc # "input" /\ selected = << >>) => (pc = "stopped" /\ shown = "select_stock")
    /\ (AfterDownloads /\ NRows(sp500_data) > 0 /\ stock_dfs = << >>) =>
            (pc = "stopped" /\ shown = "no_valid_data")
    /\ (AfterDownloads /\ stock_dfs # << >> /\ NRows(merged_df) = 0) =>
            (pc = "stopped" /\ shown = "no_overlap")
    /\ (pc \in {"summary", "done"}) => (Len(BetaValues) >= 1 /\ Len(return_value) >= 1)
    /\ (pc = "done") => summary.count >= 1
    /\ shown # "ZeroDivisionError"

\* C10: when a selected asset fails (its download, or a core computation
\* raising for it) in a run that no guard stopped, the failure is reported,
\* every other selected asset has a beta, an alpha and an expected return
\* and is counted in the summary, and the failed asset has none and is not
\* counted.
C10_FailureIsolated ==
    LET failed == SeqToSet(failed_stocks) \cup (IF raised_at = "" THEN {} ELSE {raised_at})
        others == SeqToSet(selected) \ failed
    IN  (pc \in {"error", "done"} /\ failed # {} /\ others # {}) =>
            /\ \A s \in failed : s \in SeqToSet(warned) \/ shown # ""
            /\ \A s \in others :
                  s \in DOMAIN beta /\ s \in DOMAIN alpha /\ s \in DOMAIN expected_return
            /\ \A s \in failed :
                  s \notin DOMAIN beta /\ s \notin DOMAIN alpha /\ s \notin DOMAIN expected_return
            /\ pc = "done"
            /\ summary.count = Cardinality(others)

====
